---- MODULE Spec2Model ----
(***************************************************************************)
(* Model of src/src/hrana.rs: the hrana backend of the libsql client.      *)
(*                                                                         *)
(* The Client wraps three handles of the hrana_client crate (the           *)
(* connection handle, the connection future and one stream).  The crate    *)
(* itself is the environment of this model: every await on it is an        *)
(* action whose outcome (Ok value or Err) is chosen nondeterministically.  *)
(***************************************************************************)
EXTENDS Integers, Sequences, FiniteSets, TLC

\* TLC keeps the fields of a record in the order their names first occur in
\* the module.  Every field name of the model occurs here first, and every
\* record below lists its fields in this order.
FieldOrder ==
    [args |-> {}, batch |-> {}, cause |-> {}, cols |-> {},
     columns |-> {}, condition |-> {}, error |-> {}, hrana_stmt |-> {},
     kind |-> {}, message |-> {}, n |-> {}, name |-> {},
     out |-> {}, outcome |-> {}, params |-> {}, q |-> {},
     rows |-> {}, some |-> {}, sql |-> {}, step_errors |-> {},
     step_results |-> {}, stmt |-> {}, stmts |-> {}, tag |-> {},
     val |-> {}, value |-> {}, want_rows |-> {}]

\* Largest number of statements in one batch, and of slots in either list
\* of a batch response.
MaxBatch == 2

(***************************************************************************)
(* Data: Option, Statement, the wire types of hrana_client::proto, and     *)
(* QueryResult.                                                            *)
(***************************************************************************)
None == [some |-> FALSE]

Some(x) == [some |-> TRUE, val |-> x]

\* crate::Statement { q, params }
Statements ==
    { [params |-> <<>>, q |-> "SELECT 1"],
      [params |-> <<1, 2>>, q |-> "INSERT ?, ?"] }

\* proto::Stmt::new(sql, want_rows): a statement with no arguments bound.
Stmt_new(q, want_rows) == [args |-> <<>>, sql |-> q, want_rows |-> want_rows]

\* A bind that puts the argument before the ones already bound.
bind_prepending(hrana_stmt, param) ==
    [hrana_stmt EXCEPT !.args = <<param>> \o @]

\* proto::Stmt::bind(param): appends one positional argument.
bind(hrana_stmt, param) == [hrana_stmt EXCEPT !.args = Append(@, param)]

RECURSIVE bind_all(_, _)
\* for param in stmt.params { hrana_stmt.bind(param) }
bind_all(hrana_stmt, params) ==
    IF params = <<>> THEN hrana_stmt
    ELSE bind_all(bind(hrana_stmt, Head(params)), Tail(params))

\* The wire statement both raw_batch and execute build from a Statement.
hrana_stmt_of(stmt) == bind_all(Stmt_new(stmt.q, TRUE), stmt.params)

\* proto::Batch::step(condition, stmt)
step(batch, condition, hrana_stmt) ==
    Append(batch, [condition |-> condition, stmt |-> hrana_stmt])

RECURSIVE build_batch_conditional(_, _)
\* A loop that makes every step but the first run only if the step before
\* it succeeded.
build_batch_conditional(batch, stmts) ==
    IF stmts = <<>> THEN batch
    ELSE build_batch_conditional(
             step(batch,
                  IF batch = <<>> THEN None ELSE Some(Len(batch)),
                  hrana_stmt_of(Head(stmts))),
             Tail(stmts))

RECURSIVE build_batch(_, _)
\* The loop of raw_batch over stmts, starting from Batch::new().
build_batch(batch, stmts) ==
    IF stmts = <<>> THEN batch
    ELSE build_batch(step(batch, None, hrana_stmt_of(Head(stmts))), Tail(stmts))

\* proto::Col { name: Option<String> }
Col(name) == [name |-> name]

\* proto::StmtResult { cols, rows }
StmtResult(cols, rows) == [cols |-> cols, rows |-> rows]

\* Results a server can send for one statement: one with no rows, one with
\* a row as wide as the column list, one with a column that has no name,
\* and one with a row wider than the column list.
StmtResults ==
    { StmtResult(<<Col(Some("a"))>>, <<>>),
      StmtResult(<<Col(Some("a")), Col(Some("b"))>>, << <<1, 2>> >>),
      StmtResult(<<Col(None)>>, <<>>),
      StmtResult(<<Col(Some("a"))>>, << <<1, 2>> >>) }

\* Messages of proto::Error a server reports for a failed statement.
ErrorMessages == {"syntax error"}

\* QueryResult::Success((ResultSet { columns, rows }, Meta::default())).
\* A QueryResult is a record of one shape for both variants: the fields of
\* the other variant are empty.  Meta is always Meta::default().
Success(columns, rows) ==
    [columns |-> columns, message |-> "", rows |-> rows, tag |-> "Success"]

\* QueryResult::Error((message, Meta::default()))
Error(message) ==
    [columns |-> <<>>, message |-> message, rows |-> <<>>, tag |-> "Error"]

\* The outcome of a computation that returns Result<T>: Ok(value),
\* Err(error), or a panic (an unwrap of None, an index out of bounds).
Ok(value) == [error |-> "", kind |-> "Ok", value |-> value]

Err(error) == [error |-> error, kind |-> "Err", value |-> <<>>]

Panic == [error |-> "", kind |-> "Panic", value |-> <<>>]

(***************************************************************************)
(* parse_query_result                                                      *)
(***************************************************************************)
RECURSIVE insert_cells_first_wins(_, _, _, _)
\* The loop with an insert that keeps the entry a key already has.
insert_cells_first_wins(cols, vec_of_values, i, cells) ==
    IF i > Len(vec_of_values) THEN Ok(cells)
    ELSE IF i > Len(cols) THEN Panic
    ELSE IF ~cols[i].name.some THEN Panic
    ELSE insert_cells_first_wins(
             cols, vec_of_values, i + 1,
             IF \E e \in cells : e[1] = cols[i].name.val THEN cells
             ELSE cells \cup {<<cols[i].name.val, vec_of_values[i]>>})

RECURSIVE insert_cells(_, _, _, _)
\* The loop over vec_of_values.iter().enumerate(): cells.insert(
\* cols[i].name.unwrap(), value).  Indexing cols past its end and
\* unwrapping an absent name panic; insert overwrites an existing key.
\* The HashMap is the set of its <<key, value>> entries.
insert_cells(cols, vec_of_values, i, cells) ==
    IF i > Len(vec_of_values) THEN Ok(cells)
    ELSE IF i > Len(cols) THEN Panic
    ELSE IF ~cols[i].name.some THEN Panic
    ELSE insert_cells(cols, vec_of_values, i + 1,
                      {e \in cells : e[1] # cols[i].name.val}
                          \cup {<<cols[i].name.val, vec_of_values[i]>>})

\* A row built with the values taken from the last to the first.
row_of_reversed(cols, vec_of_values) ==
    insert_cells(cols,
                 [j \in 1..Len(vec_of_values) |->
                     vec_of_values[Len(vec_of_values) + 1 - j]],
                 1, {})

\* crate::Row { cells } of one row of the result.
row_of(cols, vec_of_values) == insert_cells(cols, vec_of_values, 1, {})

parse_query_result(result) ==
    LET rows == [r \in 1..Len(result.rows) |-> row_of(result.cols, result.rows[r])]
    IN  IF \E r \in 1..Len(result.rows) : rows[r].kind = "Panic" THEN Panic
        ELSE IF \E c \in 1..Len(result.cols) : ~result.cols[c].name.some THEN Panic
        ELSE Ok(Success([c \in 1..Len(result.cols) |-> result.cols[c].name.val],
                        [r \in 1..Len(result.rows) |-> rows[r].value]))

(***************************************************************************)
(* raw_batch and execute: what the call returns, given what the await on   *)
(* the stream resolved to.                                                 *)
(***************************************************************************)
\* proto::Error { message }
ProtoError(message) == [message |-> message]

\* proto::BatchResult { step_results, step_errors }
BatchResult(step_results, step_errors) ==
    [step_errors |-> step_errors, step_results |-> step_results]

Min(a, b) == IF a <= b THEN a ELSE b

\* The closure raw_batch maps over the zipped pairs.
decode_step(result, err) ==
    IF result.some /\ ~err.some THEN parse_query_result(result.val)
    ELSE IF ~result.some /\ err.some THEN Ok(Error(err.val.message))
    ELSE Ok(Error("Unexpected combination of result and error"))

\* The decoding of a batch answer: zip (as long as the shorter list), map
\* and collect.
collect_results(results) ==
    LET n == Min(Len(results.step_results), Len(results.step_errors))
        decoded == [k \in 1..n |->
                       decode_step(results.step_results[k],
                                   results.step_errors[k])]
    IN  IF \E k \in 1..n : decoded[k].kind = "Panic" THEN Panic
        ELSE Ok([k \in 1..n |-> decoded[k].value])

\* A raw_batch that turns a failed await into an empty sequence.
raw_batch_return_swallowing(outcome) ==
    IF outcome.kind = "Err" THEN Ok(<<>>) ELSE collect_results(outcome.value)

\* raw_batch after the await: `?` on the outcome of stream.execute_batch,
\* then the decoding of the answer.
raw_batch_return(outcome) ==
    IF outcome.kind = "Err" THEN Err(outcome.error)
    ELSE collect_results(outcome.value)

\* execute after the await: `?` on the outcome of stream.execute, then
\* parse_query_result.  The returned QueryResult is held as a sequence of
\* one element, so that both calls return a value of one shape.
execute_return(outcome) ==
    IF outcome.kind = "Err" THEN Err(outcome.error)
    ELSE LET parsed == parse_query_result(outcome.value)
         IN  IF parsed.kind = "Ok" THEN Ok(<<parsed.value>>) ELSE parsed

(***************************************************************************)
(* What the environment can answer.                                        *)
(***************************************************************************)
\* Sequences over S of length 0..n.
SeqUpTo(S, n) == UNION {[1..m -> S] : m \in 0..n}

OptionOf(S) == {None} \cup {Some(x) : x \in S}

\* Every BatchResult with at most MaxBatch slots in each list.
BatchResults ==
    { BatchResult(rs, es) :
        rs \in SeqUpTo(OptionOf(StmtResults), MaxBatch),
        es \in SeqUpTo(OptionOf({ProtoError(m) : m \in ErrorMessages}), MaxBatch) }

TransportFailure == "transport failure"

(***************************************************************************)
(* State                                                                   *)
(***************************************************************************)
VARIABLES
    lifecycle,      \* Disconnected, Connecting, Connected, ShuttingDown,
                    \* Closed (the Client was consumed by shutdown), or
                    \* Failed (new returned Err: no Client exists)
    new_pc,         \* the await new is suspended at: idle, connect,
                    \* open_stream, done
    token,          \* the token argument new was called with
    presented,      \* the credential new passed to connect, an Option
    client_future,  \* the connection driver behind ConnFut: none, running,
                    \* stopped_ok, stopped_err
    stream,         \* the Stream field: none, open, dropped
    call,           \* the execute or raw_batch call in flight
    resp,           \* what the await of the last call resolved to
    ret,            \* what the last call returned to its caller
    shutdown_pc,    \* the await shutdown is suspended at: idle, closing
                    \* (client.shutdown()), joining (client_future),
                    \* returned
    close_signal,   \* the outcome of client.shutdown(): none, ok, err
    shutdown_result \* what shutdown returned: none, Ok, Err

vars ==
    <<lifecycle, new_pc, token, presented, client_future, stream, call, resp,
      ret, shutdown_pc, close_signal, shutdown_result>>

Tokens == {"", "jwt"}

NoCall == [batch |-> <<>>, hrana_stmt |-> None, name |-> "none", stmts |-> <<>>]

NoResp == [cause |-> "none", name |-> "none", outcome |-> Err("")]

NoRet == [n |-> 0, name |-> "none", out |-> Err("")]

Init ==
    /\ lifecycle = "Disconnected"
    /\ new_pc = "idle"
    /\ token = ""
    /\ presented = None
    /\ client_future = "none"
    /\ stream = "none"
    /\ call = NoCall
    /\ resp = NoResp
    /\ ret = NoRet
    /\ shutdown_pc = "idle"
    /\ close_signal = "none"
    /\ shutdown_result = "none"

(***************************************************************************)
(* Client::new and Client::from_config                                     *)
(***************************************************************************)
\* A new that presents whatever token it was given.
credential_always(t) == Some(t)

\* The credential new hands to hrana_client::Client::connect.
credential(t) == IF t = "" THEN None ELSE Some(t)

\* new up to its first await: the call of connect.
new(t) ==
    /\ lifecycle = "Disconnected"
    /\ lifecycle' = "Connecting"
    /\ new_pc' = "connect"
    /\ token' = t
    /\ presented' = credential(t)
    /\ UNCHANGED <<client_future, stream, call, resp, ret, shutdown_pc,
                   close_signal, shutdown_result>>

\* config.auth_token.unwrap_or_default()
unwrap_or_default(auth_token) == IF auth_token.some THEN auth_token.val ELSE ""

NewCalled == \E t \in Tokens : new(t)

FromConfigCalled ==
    \E auth_token \in OptionOf(Tokens) : new(unwrap_or_default(auth_token))

\* connect resolved to Ok((client, client_future)): the driver exists.
ConnectOk ==
    /\ new_pc = "connect"
    /\ new_pc' = "open_stream"
    /\ client_future' = "running"
    /\ UNCHANGED <<lifecycle, token, presented, stream, call, resp, ret,
                   shutdown_pc, close_signal, shutdown_result>>

\* connect resolved to Err: `?` returns it, no Client is built.
ConnectErr ==
    /\ new_pc = "connect"
    /\ new_pc' = "done"
    /\ lifecycle' = "Failed"
    /\ UNCHANGED <<token, presented, client_future, stream, call, resp, ret,
                   shutdown_pc, close_signal, shutdown_result>>

\* open_stream resolved to Ok(stream): new returns Ok(Self { .. }).
OpenStreamOk ==
    /\ new_pc = "open_stream"
    /\ new_pc' = "done"
    /\ stream' = "open"
    /\ lifecycle' = "Connected"
    /\ UNCHANGED <<token, presented, client_future, call, resp, ret,
                   shutdown_pc, close_signal, shutdown_result>>

\* A new that returns a Client although open_stream resolved to Err.
OpenStreamErr_client_anyway ==
    /\ new_pc = "open_stream"
    /\ new_pc' = "done"
    /\ lifecycle' = "Connected"
    /\ UNCHANGED <<token, presented, client_future, stream, call, resp, ret,
                   shutdown_pc, close_signal, shutdown_result>>

\* open_stream resolved to Err: `?` returns it, no Client is built.
OpenStreamErr ==
    /\ new_pc = "open_stream"
    /\ new_pc' = "done"
    /\ lifecycle' = "Failed"
    /\ UNCHANGED <<token, presented, client_future, stream, call, resp, ret,
                   shutdown_pc, close_signal, shutdown_result>>

(***************************************************************************)
(* The connection driver (environment)                                     *)
(***************************************************************************)
\* The driver ends, with Ok(()) or with an error, at a time of its own.
DriverStops ==
    /\ client_future = "running"
    /\ client_future' \in {"stopped_ok", "stopped_err"}
    /\ UNCHANGED <<lifecycle, new_pc, token, presented, stream, call, resp,
                   ret, shutdown_pc, close_signal, shutdown_result>>

(***************************************************************************)
(* raw_batch and execute as calls on the Client                            *)
(***************************************************************************)
\* A Client that shutdown borrows and leaves usable.
CanCall_after_shutdown == lifecycle \in {"Connected", "ShuttingDown", "Closed"}

\* Both calls borrow the Client (&self): they need a Client that exists,
\* which shutdown(self) consumes.
CanCall == lifecycle = "Connected"

\* raw_batch up to its await: the batch is built and submitted.
RawBatchCalled ==
    \E stmts \in SeqUpTo(Statements, MaxBatch) :
        /\ CanCall
        /\ call.name = "none"
        /\ call' = [batch |-> build_batch(<<>>, stmts), hrana_stmt |-> None,
                    name |-> "raw_batch", stmts |-> stmts]
        /\ resp' = NoResp
        /\ ret' = NoRet
        /\ UNCHANGED <<lifecycle, new_pc, token, presented, client_future,
                       stream, shutdown_pc, close_signal, shutdown_result>>

\* execute up to its await: the statement is built and submitted.
ExecuteCalled ==
    \E stmt \in Statements :
        /\ CanCall
        /\ call.name = "none"
        /\ call' = [batch |-> <<>>, hrana_stmt |-> Some(hrana_stmt_of(stmt)),
                    name |-> "execute", stmts |-> <<stmt>>]
        /\ resp' = NoResp
        /\ ret' = NoRet
        /\ UNCHANGED <<lifecycle, new_pc, token, presented, client_future,
                       stream, shutdown_pc, close_signal, shutdown_result>>

\* The await of raw_batch resolves to `outcome` and raw_batch returns.
RawBatchResumes(cause, outcome) ==
    /\ call.name = "raw_batch"
    /\ resp' = [cause |-> cause, name |-> "raw_batch", outcome |-> outcome]
    /\ ret' = [n |-> Len(call.stmts), name |-> "raw_batch",
               out |-> raw_batch_return(outcome)]
    /\ call' = NoCall
    /\ UNCHANGED <<lifecycle, new_pc, token, presented, client_future, stream,
                   shutdown_pc, close_signal, shutdown_result>>

\* The server answers the batch.
BatchAnswered == \E results \in BatchResults : RawBatchResumes("response", Ok(results))

\* The transport fails while the batch is in flight.
BatchTransportFails == RawBatchResumes("transport", Err(TransportFailure))

\* The await of execute resolves to `outcome` and execute returns.
ExecuteResumes(cause, outcome) ==
    /\ call.name = "execute"
    /\ resp' = [cause |-> cause, name |-> "execute", outcome |-> outcome]
    /\ ret' = [n |-> 1, name |-> "execute", out |-> execute_return(outcome)]
    /\ call' = NoCall
    /\ UNCHANGED <<lifecycle, new_pc, token, presented, client_future, stream,
                   shutdown_pc, close_signal, shutdown_result>>

\* The server answers the statement with a result.
ExecuteAnswered == \E result \in StmtResults : ExecuteResumes("response", Ok(result))

\* The server reports that the statement failed: stream.execute has only
\* its Err to carry the report, its Ok being a StmtResult.
ExecuteStatementFails == \E m \in ErrorMessages : ExecuteResumes("statement", Err(m))

\* The transport fails while the statement is in flight.
ExecuteTransportFails == ExecuteResumes("transport", Err(TransportFailure))

\* The caller drops the future of the call in flight.
CallAbandoned ==
    /\ call.name # "none"
    /\ call' = NoCall
    /\ UNCHANGED <<lifecycle, new_pc, token, presented, client_future, stream,
                   resp, ret, shutdown_pc, close_signal, shutdown_result>>

(***************************************************************************)
(* Client::shutdown                                                        *)
(***************************************************************************)
\* shutdown(self) up to its first await.  It takes the Client by value, so
\* no call borrowing the Client is in flight.
ShutdownCalled ==
    /\ lifecycle = "Connected"
    /\ call.name = "none"
    /\ lifecycle' = "ShuttingDown"
    /\ shutdown_pc' = "closing"
    /\ UNCHANGED <<new_pc, token, presented, client_future, stream, call, resp,
                   ret, close_signal, shutdown_result>>

\* self.client.shutdown().await resolved to Ok: go on to await the driver.
CloseSignalOk ==
    /\ shutdown_pc = "closing"
    /\ close_signal' = "ok"
    /\ shutdown_pc' = "joining"
    /\ UNCHANGED <<lifecycle, new_pc, token, presented, client_future, stream,
                   call, resp, ret, shutdown_result>>

\* self.client.shutdown().await resolved to Err: `?` returns it.  self is
\* dropped: the stream and the handles go, the driver is not awaited.
CloseSignalErr ==
    /\ shutdown_pc = "closing"
    /\ close_signal' = "err"
    /\ shutdown_pc' = "returned"
    /\ shutdown_result' = "Err"
    /\ lifecycle' = "Closed"
    /\ stream' = "dropped"
    /\ UNCHANGED <<new_pc, token, presented, client_future, call, resp, ret>>

\* Whether the await of client_future can resolve: the driver has ended.
DriverJoined == client_future \in {"stopped_ok", "stopped_err"}

\* A shutdown that returns Ok(()) without awaiting client_future.
DriverAwaited_not ==
    /\ shutdown_pc = "joining"
    /\ shutdown_pc' = "returned"
    /\ shutdown_result' = "Ok"
    /\ lifecycle' = "Closed"
    /\ stream' = "dropped"
    /\ UNCHANGED <<new_pc, token, presented, client_future, call, resp, ret,
                   close_signal>>

\* self.client_future.await resolved: `?` returns its Err, else Ok(()).
DriverAwaited ==
    /\ shutdown_pc = "joining"
    /\ DriverJoined
    /\ shutdown_pc' = "returned"
    /\ shutdown_result' = IF client_future = "stopped_ok" THEN "Ok" ELSE "Err"
    /\ lifecycle' = "Closed"
    /\ stream' = "dropped"
    /\ UNCHANGED <<new_pc, token, presented, client_future, call, resp, ret,
                   close_signal>>

Next ==
    \/ NewCalled
    \/ FromConfigCalled
    \/ ConnectOk
    \/ ConnectErr
    \/ OpenStreamOk
    \/ OpenStreamErr
    \/ DriverStops
    \/ RawBatchCalled
    \/ ExecuteCalled
    \/ BatchAnswered
    \/ BatchTransportFails
    \/ ExecuteAnswered
    \/ ExecuteStatementFails
    \/ ExecuteTransportFails
    \/ CallAbandoned
    \/ ShutdownCalled
    \/ CloseSignalOk
    \/ CloseSignalErr
    \/ DriverAwaited

Spec == Init /\ [][Next]_vars

(***************************************************************************)
(* parse_query_result over every small raw result: a connected Client      *)
(* whose execute calls are answered with any result of DecodeInputs.       *)
(***************************************************************************)
MaxCols == 2

MaxRows == 2

ColNames == {"a", "b"}

\* Column lists of at most MaxCols descriptors, a name present or absent.
DecodeCols == SeqUpTo({Col(name) : name \in OptionOf(ColNames)}, MaxCols)

\* Rows the server can send beside `cols`: as wide as cols, one value
\* narrower, or one value wider; a row of w values holds 1..w, ascending
\* or descending, so that every position of a row has its own value.
RowsFor(cols) ==
    UNION { { [j \in 1..w |-> j], [j \in 1..w |-> w + 1 - j] } :
              w \in {w \in 0..(Len(cols) + 1) : w + 1 >= Len(cols)} }

DecodeInputs ==
    UNION { { StmtResult(cols, rows) : rows \in SeqUpTo(RowsFor(cols), MaxRows) } :
              cols \in DecodeCols }

\* new has returned a Client (connect and open_stream resolved Ok) and an
\* execute call is suspended at its await.
InitDecode ==
    /\ lifecycle = "Connected"
    /\ new_pc = "done"
    /\ token = ""
    /\ presented = credential("")
    /\ client_future = "running"
    /\ stream = "open"
    /\ \E stmt \in Statements :
           call = [batch |-> <<>>, hrana_stmt |-> Some(hrana_stmt_of(stmt)),
                   name |-> "execute", stmts |-> <<stmt>>]
    /\ resp = NoResp
    /\ ret = NoRet
    /\ shutdown_pc = "idle"
    /\ close_signal = "none"
    /\ shutdown_result = "none"

\* stream.execute resolves to Ok(result) and execute returns
\* parse_query_result(result).
DecodeAnswered ==
    \E result \in DecodeInputs : ExecuteResumes("response", Ok(result))

NextDecode ==
    \/ ExecuteCalled
    \/ DecodeAnswered

SpecDecode == InitDecode /\ [][NextDecode]_vars

(***************************************************************************)
(* Claims                                                                  *)
(***************************************************************************)
\* The raw response of the last answered raw_batch call.
AnsweredBatch == resp.outcome.value

\* The last call was a raw_batch the server answered with as many slots,
\* in each list, as statements were submitted.
BatchAnsweredInFull ==
    /\ ret.name = "raw_batch"
    /\ resp.cause = "response"
    /\ Len(AnsweredBatch.step_results) = ret.n
    /\ Len(AnsweredBatch.step_errors) = ret.n

\* Slot k of the answered batch holds a result and no error.
StepSucceeded(k) ==
    AnsweredBatch.step_results[k].some /\ ~AnsweredBatch.step_errors[k].some

\* Slot k of the answered batch holds an error and no result.
StepFailed(k) ==
    ~AnsweredBatch.step_results[k].some /\ AnsweredBatch.step_errors[k].some

\* The value returned at position k is the outcome of slot k.
OutcomeAt(k) ==
    /\ StepSucceeded(k) => ret.out.value[k].tag = "Success"
    /\ StepFailed(k) =>
           ret.out.value[k] = Error(AnsweredBatch.step_errors[k].val.message)

\* C1: a raw_batch of N statements that the server answers (no transport
\* failure) returns exactly N QueryResult values, the value at position k
\* being the outcome of the k-th statement.  Stated for the answers that
\* hold N slots; the code breaks it even there.
C1_OneOutcomePerStatement ==
    BatchAnsweredInFull =>
        /\ ret.out.kind = "Ok"
        /\ Len(ret.out.value) = ret.n
        /\ \A k \in 1..ret.n : OutcomeAt(k)

\* Every step of the answered batch has a result or an error, not both,
\* and at most one step has the error.
AtMostOneStepFailed ==
    /\ BatchAnsweredInFull
    /\ \A k \in 1..ret.n : StepSucceeded(k) \/ StepFailed(k)
    /\ Cardinality({k \in 1..ret.n : StepFailed(k)}) <= 1

\* C2: when the server reports an error for one step i and a result for
\* every other step (or a result for every step), raw_batch returns N
\* values: Error with the server's message at position i, Success at every
\* other position; the call itself does not fail.
C2_StepOutcomesIndependent ==
    AtMostOneStepFailed =>
        /\ ret.out.kind = "Ok"
        /\ Len(ret.out.value) = ret.n
        /\ \A k \in 1..ret.n :
               /\ StepFailed(k) =>
                      ret.out.value[k] =
                          Error(AnsweredBatch.step_errors[k].val.message)
               /\ StepSucceeded(k) => ret.out.value[k].tag = "Success"

\* The answer to a batch of one statement that carries what the server
\* gave the last execute call: its result, or its report of the error.
AsBatchOfOne ==
    IF resp.cause = "response"
    THEN BatchResult(<<Some(resp.outcome.value)>>, <<None>>)
    ELSE BatchResult(<<None>>, <<Some(ProtoError(resp.outcome.error))>>)

\* C3: execute(s) returns what raw_batch([s]) returns as its only element,
\* for a tabular result and for a statement error the server reports; the
\* reported statement error comes back as QueryResult::Error, not as a
\* call-level error.
C3_ExecuteIsBatchOfOne ==
    (ret.name = "execute" /\ resp.cause \in {"response", "statement"}) =>
        /\ ret.out = raw_batch_return(Ok(AsBatchOfOne))
        /\ resp.cause = "statement" =>
               /\ ret.out.kind = "Ok"
               /\ ret.out.value[1].tag = "Error"

\* C4: a transport failure while raw_batch is in flight makes the whole
\* call return the error: no QueryResult sequence is returned, neither a
\* prefix nor Error entries in place of the lost steps.
C4_TransportFailureFailsCall ==
    (ret.name = "raw_batch" /\ resp.cause = "transport") =>
        /\ ret.out.kind = "Err"
        /\ ret.out.error = resp.outcome.error
        /\ ret.out.value = <<>>

\* A raw_batch of two statements has returned after a transport failure.
C4_Witness ==
    /\ ret.name = "raw_batch"
    /\ resp.cause = "transport"
    /\ ret.n = 2
    /\ ret.out.kind = "Err"

\* C6: shutdown first signals the connection to close and waits for the
\* driver only once the signal has completed; it returns Ok only when the
\* signal completed and the driver has stopped.
C6_ShutdownTwoPhases ==
    /\ shutdown_pc = "closing" => close_signal = "none"
    /\ shutdown_pc = "joining" => close_signal = "ok"
    /\ shutdown_result = "Ok" =>
           /\ shutdown_pc = "returned"
           /\ close_signal = "ok"
           /\ client_future = "stopped_ok"

\* shutdown has returned Ok.
C6_Witness == shutdown_result = "Ok" /\ lifecycle = "Closed"

\* C7: when a phase of shutdown reports an error, shutdown returns an
\* error; and once shutdown has returned, with either result, the driver
\* is not running and the session is not open.
C7_ShutdownReleasesOnFailure ==
    shutdown_pc = "returned" =>
        /\ (close_signal = "err" \/ client_future = "stopped_err") =>
               shutdown_result = "Err"
        /\ client_future # "running"
        /\ stream # "open"

\* shutdown has been called on the Client.
ShutDown == lifecycle \in {"ShuttingDown", "Closed"}

\* C8: once shutdown has been called, the Client stays shut down, no
\* execute or raw_batch is submitted or returns a value, and shutdown is
\* not entered a second time.
C8_OnlyConnectedAccepts ==
    [][ShutDown =>
          /\ ShutDown'
          /\ call' = NoCall
          /\ ret' = ret
          /\ shutdown_pc # "closing" => shutdown_pc' # "closing"
          /\ shutdown_pc = "returned" =>
                 UNCHANGED <<shutdown_pc, shutdown_result, close_signal>>]_vars

\* The Client is closed after a call on it had returned a value.
C8_Witness ==
    /\ lifecycle = "Closed"
    /\ ret.name = "raw_batch"
    /\ ret.out.kind = "Ok"
    /\ ret.n = 2

\* The column names of a raw result, where every column has one.
names_of(result) == [c \in 1..Len(result.cols) |-> result.cols[c].name.val]

\* C11: a successful server result with zero rows decodes, through execute
\* and at every position of raw_batch, to Success with the result's column
\* names and no rows; never to Error, never to a failed call.
C11_ZeroRowsIsSuccess ==
    /\ (/\ ret.name = "execute"
        /\ resp.cause = "response"
        /\ resp.outcome.value.rows = <<>>) =>
           /\ ret.out.kind = "Ok"
           /\ ret.out.value = <<Success(names_of(resp.outcome.value), <<>>)>>
    /\ (ret.name = "raw_batch" /\ resp.cause = "response") =>
           \A k \in 1..Min(Len(AnsweredBatch.step_results),
                           Len(AnsweredBatch.step_errors)) :
               (/\ StepSucceeded(k)
                /\ AnsweredBatch.step_results[k].val.rows = <<>>) =>
                   /\ ret.out.kind = "Ok"
                   /\ ret.out.value[k] =
                          Success(names_of(AnsweredBatch.step_results[k].val),
                                  <<>>)

\* The raw result the last execute was answered with.
AnsweredResult == resp.outcome.value

ExecuteDecoded == ret.name = "execute" /\ resp.cause = "response"

\* Some row of `result` has more or fewer values than `result` has columns.
RowWidthMismatch(result) ==
    \E r \in 1..Len(result.rows) : Len(result.rows[r]) # Len(result.cols)

\* C12: a raw result with a row whose number of values differs from the
\* number of column descriptors is reported as a decode error: execute
\* returns Err, it neither panics nor returns a Success.
C12_RowWidthMismatchIsDecodeError ==
    (ExecuteDecoded /\ RowWidthMismatch(AnsweredResult)) => ret.out.kind = "Err"

\* Slot k of the answered batch holds both a result and an error, or
\* neither.
StepMalformed(k) ==
    AnsweredBatch.step_results[k].some = AnsweredBatch.step_errors[k].some

\* C13: in a raw_batch the server answers, a step with both a result and an
\* error, or with neither, comes back as Error("Unexpected combination of
\* result and error") at its position, every other step comes back at its
\* own position, and the call itself does not fail.
C13_MalformedStepIsErrorInPlace ==
    BatchAnsweredInFull =>
        \A k \in 1..ret.n :
            StepMalformed(k) =>
                /\ ret.out.kind = "Ok"
                /\ Len(ret.out.value) = ret.n
                /\ ret.out.value[k] =
                       Error("Unexpected combination of result and error")
                /\ \A j \in (1..ret.n) \ {k} : OutcomeAt(j)

\* Every column of `result` has a name and no two columns share one.
DistinctNames(result) ==
    /\ \A c \in 1..Len(result.cols) : result.cols[c].name.some
    /\ \A c, d \in 1..Len(result.cols) :
           c # d => result.cols[c].name.val # result.cols[d].name.val

\* Every row of `result` has as many values as `result` has columns.
FullRows(result) ==
    \A r \in 1..Len(result.rows) : Len(result.rows[r]) = Len(result.cols)

\* Row::get: the values `cells` holds under `name` (one at most).
Get(cells, name) == {e[2] : e \in {e \in cells : e[1] = name}}

\* C14: for a raw result with pairwise distinct column names c_1..c_m whose
\* rows all have m values, execute returns Success whose columns are
\* c_1..c_m in descriptor order, whose rows are as many as the server's and
\* in the server's order, and whose row r maps c_j to the j-th value of the
\* server's row r, for every j.
C14_FaithfulMapping ==
    (ExecuteDecoded /\ DistinctNames(AnsweredResult) /\ FullRows(AnsweredResult)) =>
        /\ ret.out.kind = "Ok"
        /\ ret.out.value[1].tag = "Success"
        /\ ret.out.value[1].columns = names_of(AnsweredResult)
        /\ Len(ret.out.value[1].rows) = Len(AnsweredResult.rows)
        /\ \A r \in 1..Len(AnsweredResult.rows) :
               /\ \A j \in 1..Len(AnsweredResult.cols) :
                      Get(ret.out.value[1].rows[r],
                          AnsweredResult.cols[j].name.val)
                          = {AnsweredResult.rows[r][j]}
               /\ Cardinality(ret.out.value[1].rows[r]) = Len(AnsweredResult.cols)

\* Columns a, b and two different rows of two values were decoded.
C14_Witness ==
    /\ ExecuteDecoded
    /\ DistinctNames(AnsweredResult)
    /\ FullRows(AnsweredResult)
    /\ Len(AnsweredResult.cols) = 2
    /\ Len(AnsweredResult.rows) = 2
    /\ AnsweredResult.rows[1] = <<1, 2>>
    /\ AnsweredResult.rows[2] = <<2, 1>>
    /\ ret.out.kind = "Ok"
    /\ Get(ret.out.value[1].rows[1], "a") = {1}
    /\ Get(ret.out.value[1].rows[2], "a") = {2}

\* Two column descriptors of `result` carry the same name.
HasDuplicateName(result) ==
    \E c, d \in 1..Len(result.cols) :
        /\ c # d
        /\ result.cols[c].name.some
        /\ result.cols[d].name.some
        /\ result.cols[c].name.val = result.cols[d].name.val

\* The last column named `name` among the columns row r has a value for.
LastColumnNamed(result, r, name) ==
    LET having == {j \in 1..Min(Len(result.cols), Len(result.rows[r])) :
                      result.cols[j].name.val = name}
    IN  CHOOSE j \in having : \A k \in having : k <= j

\* C15: when a raw result with two column descriptors of one name is
\* decoded, every decoded row holds a single cell under each name, its value
\* being the row's value at the last column of that name (last write wins),
\* while the decoded columns list one name per descriptor.
C15_DuplicateNamesLastWriteWins ==
    (ExecuteDecoded /\ ret.out.kind = "Ok" /\ HasDuplicateName(AnsweredResult)) =>
        /\ ret.out.value[1].columns = names_of(AnsweredResult)
        /\ Len(ret.out.value[1].rows) = Len(AnsweredResult.rows)
        /\ \A r \in 1..Len(AnsweredResult.rows) :
               /\ \A c \in 1..Len(AnsweredResult.rows[r]) :
                      Get(ret.out.value[1].rows[r],
                          AnsweredResult.cols[c].name.val)
                          = {AnsweredResult.rows[r][
                                LastColumnNamed(AnsweredResult, r,
                                    AnsweredResult.cols[c].name.val)]}
               /\ \A e \in ret.out.value[1].rows[r] :
                      \E c \in 1..Len(AnsweredResult.rows[r]) :
                          AnsweredResult.cols[c].name.val = e[1]

\* Columns a, a and the row 1, 2 were decoded: the row has the one cell
\* a -> 2 under two columns.
C15_Witness ==
    /\ ExecuteDecoded
    /\ ret.out.kind = "Ok"
    /\ AnsweredResult.cols = <<Col(Some("a")), Col(Some("a"))>>
    /\ AnsweredResult.rows = << <<1, 2>> >>
    /\ ret.out.value[1].rows[1] = {<<"a", 2>>}
    /\ Cardinality(ret.out.value[1].rows[1]) < Len(ret.out.value[1].columns)

\* C16: new presents a token to connect exactly when the token it was given
\* is not empty, and from_config presents none when auth_token is absent or
\* empty; new fails only when connect or open_stream resolves to an error,
\* that is after the attempt was made, whatever the token.
C16_TokenPresentedIffNonEmpty ==
    [][/\ \A t \in Tokens :
              new(t) => /\ presented'.some <=> t # ""
                        /\ t # "" => presented' = Some(t)
       /\ \A auth_token \in OptionOf(Tokens) :
              new(unwrap_or_default(auth_token)) =>
                  (presented'.some <=> (auth_token.some /\ auth_token.val # ""))
       /\ presented'.some <=> token' # ""
       /\ (lifecycle' = "Failed" /\ lifecycle # "Failed") =>
              /\ new_pc \in {"connect", "open_stream"}
              /\ presented.some <=> token # ""]_vars

\* new was given the empty token, presented no credential, and returned a
\* Client.
C16_Witness ==
    /\ token = ""
    /\ presented = None
    /\ new_pc = "done"
    /\ lifecycle = "Connected"

\* The caller holds a Client: new returned one and shutdown has not
\* consumed it.
ClientHeld == new_pc = "done" /\ lifecycle # "Failed" /\ shutdown_pc = "idle"

\* A held Client is Connected, with its driver and its open stream.
ClientIsWhole ==
    /\ ClientHeld =>
           /\ lifecycle = "Connected"
           /\ stream = "open"
           /\ client_future # "none"
    /\ lifecycle = "Failed" =>
           /\ stream = "none"
           /\ call.name = "none"
           /\ shutdown_pc = "idle"

\* C17: a Client the caller holds is Connected with its one driver and its
\* one open stream, which do not change while it is held; new returns a
\* Client only when connect and then open_stream resolved Ok, and no Client
\* after either resolved to an error; a stream is opened, and a driver
\* started, by new only.
C17_ClientIsDriverAndSession ==
    [][/\ ClientIsWhole
       /\ ClientIsWhole'
       /\ (ClientHeld /\ ClientHeld') => stream' = stream
       /\ (ClientHeld' /\ ~ClientHeld) =>
              /\ new_pc = "open_stream"
              /\ client_future # "none"
              /\ stream' = "open"
       /\ (stream' = "open" /\ stream # "open") => new_pc = "open_stream"
       /\ (client_future = "none" /\ client_future' # "none") =>
              new_pc = "connect"
       /\ lifecycle = "Failed" => lifecycle' = "Failed"]_vars

\* A held Client has answered an execute call and still has its stream and
\* its running driver.
C17_Witness ==
    /\ ClientHeld
    /\ ret.name = "execute"
    /\ ret.out.kind = "Ok"
    /\ stream = "open"
    /\ client_future = "running"

\* The wire statement that carries `stmt` unchanged: its text, its
\* parameters as positional arguments in declaration order, want_rows set.
OnTheWire(stmt) == [args |-> stmt.params, sql |-> stmt.q, want_rows |-> TRUE]

\* The call in flight carries its statements unchanged.
CallCarriesStatements ==
    /\ call.name = "raw_batch" =>
           /\ Len(call.batch) = Len(call.stmts)
           /\ \A k \in 1..Len(call.stmts) :
                  call.batch[k].stmt = OnTheWire(call.stmts[k])
    /\ call.name = "execute" =>
           /\ call.hrana_stmt.some
           /\ call.hrana_stmt.val = OnTheWire(call.stmts[1])

\* C18: raw_batch submits one batch with one step per input statement, in
\* input order, and in raw_batch and in execute the wire statement has the
\* statement's query text, its parameters as positional arguments in
\* declaration order, and want_rows true; the batch a call submitted is not
\* submitted again or changed before the call returns.
C18_StatementsReachWireUnchanged ==
    [][/\ CallCarriesStatements
       /\ CallCarriesStatements'
       /\ (call.name # "none" /\ call' # call) => call'.name = "none"]_vars

\* A raw_batch of two different statements, the second with two
\* parameters, is in flight.
C18_Witness ==
    /\ call.name = "raw_batch"
    /\ Len(call.stmts) = 2
    /\ call.stmts[1].params = <<>>
    /\ call.stmts[2].params = <<1, 2>>
    /\ call.batch[2].stmt.args = <<1, 2>>

\* Whether step k of the batch in flight can be skipped by the server: only
\* a step with an execution condition can.
CanBeSkipped(k) == call.batch[k].condition.some

====
